---- MODULE Spec2Model ----
(***************************************************************************)
(* SmartCart: the cart store, its derived totals, the budget, the          *)
(* comparison engine, the manual-entry form and the shopping list of App   *)
(* (src/components/CartItemRow.tsx, which holds CartItemRow, the types and *)
(* App) and the analysis service (src/unnamed/part_000).                   *)
(*                                                                         *)
(* Encoding.  A JavaScript string is a sequence of one-character strings.  *)
(* A JavaScript number is an integer counting thousandths (4.5 is 4500), so *)
(* sums, products by a quantity and comparisons of quotients are exact;    *)
(* floating-point rounding is not modelled.  A value that may be null,     *)
(* undefined or NaN is Null or Some(v).                                    *)
(***************************************************************************)
EXTENDS Integers, Sequences, FiniteSets, TLC

Null == <<>>
Some(x) == <<x>>
IsSome(o) == Len(o) = 1
Val(o) == o[1]

(***************************************************************************)
(* String primitives                                                       *)
(***************************************************************************)
Digits == {"0", "1", "2", "3", "4", "5", "6", "7", "8", "9"}
DigitVal ==
  [c \in Digits |->
     CASE c = "0" -> 0 [] c = "1" -> 1 [] c = "2" -> 2 [] c = "3" -> 3
       [] c = "4" -> 4 [] c = "5" -> 5 [] c = "6" -> 6 [] c = "7" -> 7
       [] c = "8" -> 8 [] c = "9" -> 9]

UpperToLower ==
  [c \in {"A", "B", "G", "K", "L", "M"} |->
     CASE c = "A" -> "a" [] c = "B" -> "b" [] c = "G" -> "g"
       [] c = "K" -> "k" [] c = "L" -> "l" [] c = "M" -> "m"]
Letters == DOMAIN UpperToLower \cup {"a", "b", "g", "k", "l", "m", "n", "u", "x"}
IsSpace(c) == c = " "

\* String.prototype.toLowerCase
ToLowerCase(s) ==
  [k \in 1..Len(s) |-> IF s[k] \in DOMAIN UpperToLower THEN UpperToLower[s[k]] ELSE s[k]]

Drop(s, n) == SubSeq(s, n + 1, Len(s))

RECURSIVE TrimStart(_)
TrimStart(s) == IF s # <<>> /\ IsSpace(s[1]) THEN TrimStart(Tail(s)) ELSE s
RECURSIVE TrimEnd(_)
TrimEnd(s) ==
  IF s # <<>> /\ IsSpace(s[Len(s)]) THEN TrimEnd(SubSeq(s, 1, Len(s) - 1)) ELSE s
\* String.prototype.trim
Trim(s) == TrimEnd(TrimStart(s))

\* s.replace(',', '.'): a string pattern replaces the first occurrence only
ReplaceComma(s) ==
  IF \E k \in 1..Len(s) : s[k] = ","
    THEN LET p == CHOOSE k \in 1..Len(s) : s[k] = "," /\ \A j \in 1..(k - 1) : s[j] # ","
         IN  [k \in 1..Len(s) |-> IF k = p THEN "." ELSE s[k]]
    ELSE s

\* s.replace(/_/g, ' ')
ReplaceUnderscores(s) == [k \in 1..Len(s) |-> IF s[k] = "_" THEN " " ELSE s[k]]

\* s.split(' ')[0]: the text before the first space
RECURSIVE FirstWord(_)
FirstWord(s) ==
  IF s = <<>> \/ s[1] = " " THEN <<>> ELSE <<s[1]>> \o FirstWord(Tail(s))

\* the length of the longest prefix of s made of characters of set C
RECURSIVE Run(_, _)
Run(s, C) == IF s # <<>> /\ s[1] \in C THEN 1 + Run(Tail(s), C) ELSE 0

RECURSIVE DigitsValue(_)
DigitsValue(s) == IF s = <<>> THEN 0 ELSE DigitsValue(SubSeq(s, 1, Len(s) - 1)) * 10 + DigitVal[s[Len(s)]]

\* the thousandths denoted by the fraction digits s (digits after the third are dropped)
FractionValue(s) ==
  (IF Len(s) >= 1 THEN DigitVal[s[1]] * 100 ELSE 0)
    + (IF Len(s) >= 2 THEN DigitVal[s[2]] * 10 ELSE 0)
    + (IF Len(s) >= 3 THEN DigitVal[s[3]] ELSE 0)

\* the unsigned decimal literal at the start of s: [len, value], len = 0 when there is none
Decimal(s) ==
  LET ni == Run(s, Digits)
      afterInt == Drop(s, ni)
      hasDot == afterInt # <<>> /\ afterInt[1] = "."
      nf == IF hasDot THEN Run(Tail(afterInt), Digits) ELSE 0
      frac == IF hasDot THEN SubSeq(Tail(afterInt), 1, nf) ELSE <<>>
  IN  IF ni + nf = 0
        THEN [len |-> 0, value |-> 0]
        ELSE [len |-> ni + (IF hasDot THEN 1 + nf ELSE 0),
              value |-> DigitsValue(SubSeq(s, 1, ni)) * 1000 + FractionValue(frac)]

\* parseFloat: leading white space, an optional sign, a decimal literal; Null is NaN
ParseFloat(s) ==
  LET t == TrimStart(s)
      signed == t # <<>> /\ t[1] \in {"-", "+"}
      d == Decimal(IF signed THEN Tail(t) ELSE t)
  IN  IF d.len = 0 THEN Null
      ELSE Some(IF signed /\ t[1] = "-" THEN 0 - d.value ELSE d.value)


\* manualSize.match(/(\d+(?:\.\d+)?)\s*([a-zA-Z]+)/) tried at the start of s:
\* Null, or Some([num, unit]) for the two capture groups
MatchSizeAt(s) ==
  LET ni == Run(s, Digits)
      afterInt == Drop(s, ni)
      nf == IF Len(afterInt) >= 2 /\ afterInt[1] = "." THEN Run(Tail(afterInt), Digits) ELSE 0
      numLen == ni + (IF nf > 0 THEN 1 + nf ELSE 0)
      afterNum == Drop(s, numLen)
      ns == Run(afterNum, {" "})
      afterSp == Drop(afterNum, ns)
      nl == Run(afterSp, Letters)
  IN  IF ni >= 1 /\ nl >= 1
        THEN Some([num |-> SubSeq(s, 1, numLen), unit |-> SubSeq(afterSp, 1, nl)])
        ELSE Null

\* the leftmost match of the size pattern in s
RECURSIVE MatchSize(_)
MatchSize(s) ==
  IF s = <<>> THEN Null
  ELSE IF IsSome(MatchSizeAt(s)) THEN MatchSizeAt(s) ELSE MatchSize(Tail(s))

(***************************************************************************)
(* Bounds of the model                                                     *)
(***************************************************************************)
MaxIds == 3      \* identifiers (uuidv4 results) handed out in one behaviour
MaxQty == 2      \* largest quantity an increment may produce
MaxFiles == 2    \* largest number of files in one batch
MaxAlerts == 2   \* alert() dialogs counted in one behaviour
MaxImports == 2  \* list imports running at the same time

(***************************************************************************)
(* State                                                                   *)
(***************************************************************************)
VARIABLES
  items,              \* useState<CartItem[]>, newest first
  status,             \* useState<AnalysisState>: [isAnalyzing, error]
  analyzingProgress,  \* Null or Some([current, total])
  budget,             \* useState<number | null>
  pc,                 \* position of handleFileChange: "idle" or "await"
  idx,                \* its loop variable i
  newItems,           \* its local newItems
  errorMsg,           \* its local errorMsg
  nextId,             \* the next identifier uuidv4 returns
  removed,            \* history: the identifiers taken out of the cart so far
  results,            \* history: the outcome of each file of the current or last batch
  view,               \* what the last render computed from the state
  inFlight,           \* the analyzeProductImage calls that have not returned yet
  started,            \* history: the files of the current or last batch handed to
                      \* analyzeProductImage, in call order
  manual,             \* the manual-entry form: [isOpen, name, price, size]
  shoppingList,       \* useState<ShoppingListItem[]>
  isListAnalyzing,    \* useState(false)
  listCalls,          \* the extractShoppingList calls that have not returned yet
  alerts,             \* history: the number of alert() dialogs raised so far
  apiKey              \* process.env.API_KEY || ''

batchVars == <<status, analyzingProgress, pc, idx, newItems, errorMsg, results,
               inFlight, started>>
listVars == <<shoppingList, isListAnalyzing, listCalls, alerts>>
vars == <<items, status, analyzingProgress, budget, pc, idx, newItems, errorMsg,
          nextId, removed, results, view, inFlight, started, manual,
          shoppingList, isListAnalyzing, listCalls, alerts, apiKey>>

(***************************************************************************)
(* Derived values of App, recomputed on every render                       *)
(***************************************************************************)
\* items.reduce((sum, item) => sum + item.price * item.quantity, 0)
RECURSIVE TotalCostFrom(_, _)
TotalCostFrom(its, sum) ==
  IF its = <<>> THEN sum
  ELSE TotalCostFrom(Tail(its), sum + its[1].price * its[1].quantity)

TotalCost(its) == TotalCostFrom(its, 0)

\* items.reduce((sum, item) => sum + item.quantity, 0)
RECURSIVE ItemCountFrom(_, _)
ItemCountFrom(its, sum) ==
  IF its = <<>> THEN sum ELSE ItemCountFrom(Tail(its), sum + its[1].quantity)
ItemCount(its) == ItemCountFrom(its, 0)

\* JavaScript truthiness of a number | null (0 and null are falsy)
TruthyNum(o) == IsSome(o) /\ Val(o) # 0
\* JavaScript truthiness of a string | undefined ('' and undefined are falsy)
TruthyStr(o) == IsSome(o) /\ Val(o) # <<>>

\* budget !== null && totalCost > budget
IsOverBudget(total, bud) == IsSome(bud) /\ total > Val(bud)

RECURSIVE Gcd(_, _)
Gcd(a, b) == IF b = 0 THEN a ELSE Gcd(b, a % b)
Abs(n) == IF n < 0 THEN 0 - n ELSE n

\* A quotient is kept exact as [num, den] in lowest terms with den > 0.
Ratio(n, d) ==
  LET g == Gcd(Abs(n), Abs(d))
      sign == IF (n < 0) = (d < 0) THEN 1 ELSE 0 - 1
  IN  [num |-> sign * (Abs(n) \div g), den |-> Abs(d) \div g]
RatioLess(a, b) == a.num * b.den < b.num * a.den
RatioLeq(a, b) == a.num * b.den <= b.num * a.den
RatioEq(a, b) == a.num * b.den = b.num * a.den
Whole(n) == [num |-> n, den |-> 1]

\* budget ? Math.min((totalCost / budget) * 100, 100) : 0, in percent
BudgetPercentage(total, bud) ==
  IF TruthyNum(bud)
    THEN LET used == Ratio(total * 100, Val(bud))
         IN  IF RatioLess(used, Whole(100)) THEN used ELSE Whole(100)
    ELSE Whole(0)

\* budget ? budget - totalCost : 0
RemainingBudget(total, bud) == IF TruthyNum(bud) THEN Val(bud) - total ELSE 0

(***************************************************************************)
(* Comparison engine                                                       *)
(***************************************************************************)
Outros == <<"o", "u", "t", "r", "o", "s">>

\* a variant that groups by the first character of the category
CategoryKeyFirstLetter(item) ==
  IF TruthyStr(item.category)
    THEN SubSeq(ReplaceUnderscores(ToLowerCase(Val(item.category))), 1, 1)
    ELSE Outros

\* item.category ? item.category.toLowerCase().replace(/_/g, ' ') : 'outros'
CategoryKey(item) ==
  IF TruthyStr(item.category)
    THEN ReplaceUnderscores(ToLowerCase(Val(item.category)))
    ELSE Outros

\* a variant that tests the measure value alone
HasMeasureValueOnly(item) == TruthyNum(item.measureValue)

\* if (item.measureValue && item.measureUnit)
HasMeasure(item) == TruthyNum(item.measureValue) /\ TruthyStr(item.measureUnit)

\* a variant that forgets the factor 1000 of kg
GetBasePriceNoKilo(i) ==
  LET val0 == IF TruthyNum(i.measureValue) THEN Val(i.measureValue) ELSE 1000
      val2 == IF i.measureUnit = Some(<<"l">>) THEN val0 * 1000 ELSE val0
  IN  Ratio(i.price, val2)

\* getBasePrice: price / (measureValue || 1), the measure in g or ml for kg and l
GetBasePrice(i) ==
  LET val0 == IF TruthyNum(i.measureValue) THEN Val(i.measureValue) ELSE 1000
      val1 == IF i.measureUnit = Some(<<"k", "g">>) THEN val0 * 1000 ELSE val0
      val2 == IF i.measureUnit = Some(<<"l">>) THEN val1 * 1000 ELSE val1
  IN  Ratio(i.price, val2)

\* the sign of the comparator getBasePrice(a) - getBasePrice(b)
Comparator(a, b) ==
  IF RatioLess(GetBasePrice(a), GetBasePrice(b)) THEN -1
  ELSE IF RatioLess(GetBasePrice(b), GetBasePrice(a)) THEN 1 ELSE 0

\* a variant that is not stable: x goes in front of the elements equal to it
RECURSIVE InsertSortedBeforeTies(_, _)
InsertSortedBeforeTies(s, x) ==
  IF s # <<>> /\ Comparator(s[Len(s)], x) >= 0
    THEN InsertSortedBeforeTies(SubSeq(s, 1, Len(s) - 1), x) \o <<s[Len(s)]>>
    ELSE s \o <<x>>

\* Array.prototype.sort is stable: x goes behind every element not greater than it
RECURSIVE InsertSorted(_, _)
InsertSorted(s, x) ==
  IF s # <<>> /\ Comparator(s[Len(s)], x) > 0
    THEN InsertSorted(SubSeq(s, 1, Len(s) - 1), x) \o <<s[Len(s)]>>
    ELSE s \o <<x>>

RECURSIVE SortGroup(_)
SortGroup(g) ==
  IF g = <<>> THEN <<>> ELSE InsertSorted(SortGroup(SubSeq(g, 1, Len(g) - 1)), g[Len(g)])

\* grouped[cat] before sorting: the measured items of that category, in cart order
GroupOf(its, cat) == SelectSeq(its, LAMBDA it : HasMeasure(it) /\ CategoryKey(it) = cat)

\* the useMemo value comparisonGroups: category key -> sorted entries
ComparisonGroups(its) ==
  LET keys == {CategoryKey(its[k]) : k \in {j \in 1..Len(its) : HasMeasure(its[j])}}
  IN  [cat \in keys |-> SortGroup(GroupOf(its, cat))]

\* a variant that flags the first entry of every group
BestValueIdsAnyGroup(groups) ==
  {groups[cat][1].id : cat \in {c \in DOMAIN groups : Len(groups[c]) >= 1}}

\* the useMemo value bestValueIds
BestValueIds(groups) ==
  {groups[cat][1].id : cat \in {c \in DOMAIN groups : Len(groups[c]) >= 2}}

\* one render of App: everything it derives from items and budget
Render(its, bud) ==
  LET total == TotalCost(its)
      groups == ComparisonGroups(its)
  IN  [totalCost |-> total,
       itemCount |-> ItemCount(its),
       isOverBudget |-> IsOverBudget(total, bud),
       budgetPercentage |-> BudgetPercentage(total, bud),
       remainingBudget |-> RemainingBudget(total, bud),
       comparisonGroups |-> groups,
       bestValueIds |-> BestValueIds(groups)]

(***************************************************************************)
(* Amounts as text: formatCurrency, the per-unit prices and the share text *)
(***************************************************************************)
DigitChar == [d \in 0..9 |-> CHOOSE c \in Digits : DigitVal[c] = d]

\* the decimal digits of a natural number
RECURSIVE NatText(_)
NatText(n) == IF n < 10 THEN <<DigitChar[n]>> ELSE NatText(n \div 10) \o <<DigitChar[n % 10]>>

\* the pt-BR grouping of integer digits: a dot before every three digits
RECURSIVE Grouped(_)
Grouped(ds) ==
  IF Len(ds) <= 3 THEN ds
  ELSE Grouped(SubSeq(ds, 1, Len(ds) - 3)) \o <<".">> \o SubSeq(ds, Len(ds) - 2, Len(ds))

\* the cents Intl.NumberFormat shows for an amount in reais: two fraction
\* digits, halves rounded away from zero
Cents(r) ==
  LET n == 100 * Abs(r.num)
      c == (n \div r.den) + (IF 2 * (n % r.den) >= r.den THEN 1 ELSE 0)
  IN  IF r.num >= 0 THEN c ELSE 0 - c

\* new Intl.NumberFormat('pt-BR', {style: 'currency', currency: 'BRL'}).format(val):
\* an optional minus, "R$", a no-break space (written " " here), the grouped
\* integer digits, a comma and two fraction digits
FormatCurrency(r) ==
  LET c == Cents(r)
      a == IF c < 0 THEN 0 - c ELSE c
  IN  (IF r.num < 0 THEN <<"-">> ELSE <<>>)
        \o <<"R", "$", " ">> \o Grouped(NatText(a \div 100))
        \o <<",", DigitChar[(a % 100) \div 10], DigitChar[a % 10]>>

\* a number of thousandths as an amount in reais
Reais(v) == Ratio(v, 1000)

\* a variant that shows the price per g or ml, as the ranking takes it
ModalUnitPriceNormalized(item) ==
  IF TruthyNum(item.measureValue) THEN GetBasePrice(item) ELSE Whole(0)

\* the comparison modal: item.measureValue ? item.price / item.measureValue : 0
ModalUnitPrice(item) ==
  IF TruthyNum(item.measureValue) THEN Ratio(item.price, Val(item.measureValue)) ELSE Whole(0)

\* the comparison modal's small print: formatCurrency(unitPrice)/measureUnit
\* when unitPrice > 0, as [amount, unit], or Null when nothing is shown
ModalUnitLabel(item) ==
  LET unitPrice == ModalUnitPrice(item)
  IN  IF RatioLess(Whole(0), unitPrice)
        THEN Some([amount |-> FormatCurrency(unitPrice), unit |-> item.measureUnit])
        ELSE Null

\* CartItemRow.pricePerUnitDisplay
PricePerUnitDisplay(item) ==
  IF TruthyNum(item.measureValue) /\ TruthyStr(item.measureUnit) /\ Val(item.measureValue) > 0
    THEN Some([amount |-> FormatCurrency(Ratio(item.price, Val(item.measureValue))),
               unit |-> item.measureUnit])
    ELSE Null

NewLine == "\n"

\* `${item.quantity}x ${item.productName} - ${formatCurrency(item.price * item.quantity)}`
ShareLine(item) ==
  NatText(item.quantity) \o <<"x", " ">> \o item.productName \o <<" ", "-", " ">>
    \o FormatCurrency(Reais(item.price * item.quantity))

\* items.map(...).join('\n')
RECURSIVE ListText(_)
ListText(its) ==
  IF Len(its) = 1 THEN ShareLine(its[1])
  ELSE ShareLine(its[1]) \o <<NewLine>> \o ListText(Tail(its))

\* the first line of the share text; its leading pictograph is written "#"
ShareHeader ==
  <<"#", " ", "*", "L", "i", "s", "t", "a", " ",
    "S", "m", "a", "r", "t", "C", "a", "r", "t", "*">>
\* the label of the last line; its leading pictograph is written "@"
TotalLabel == <<"@", " ", "*", "T", "o", "t", "a", "l", ":", " ">>

\* handleShareList: the text handed to navigator.share or to the clipboard,
\* Null for an empty cart (the handler returns at once)
ShareText(its, total) ==
  IF Len(its) = 0 THEN Null
  ELSE Some(ShareHeader \o <<NewLine, NewLine>> \o ListText(its) \o <<NewLine, NewLine>>
              \o TotalLabel \o FormatCurrency(Reais(total)) \o <<"*">>)

(***************************************************************************)
(* List reconciliation: the callbacks isItemInCart and isItemInWishlist    *)
(***************************************************************************)
\* String.prototype.includes
Includes(s, t) ==
  \E k \in 0..(Len(s) - Len(t)) : SubSeq(s, k + 1, k + Len(t)) = t

\* a variant that also accepts a list name containing the cart entry's name
IsItemInCartEitherWay(its, listName) ==
  \E k \in 1..Len(its) :
    \/ Includes(ToLowerCase(its[k].productName), Trim(ToLowerCase(listName)))
    \/ Includes(Trim(ToLowerCase(listName)), ToLowerCase(its[k].productName))

\* items.some(item => item.productName.toLowerCase().includes(listName.toLowerCase().trim()))
IsItemInCart(its, listName) ==
  \E k \in 1..Len(its) :
    Includes(ToLowerCase(its[k].productName), Trim(ToLowerCase(listName)))

\* a variant that looks for the cart entry's name in the list names
IsItemInWishlistReversed(list, cartName) ==
  \E k \in 1..Len(list) :
    Includes(Trim(ToLowerCase(list[k].name)), ToLowerCase(cartName))

\* shoppingList.some(listItem =>
\*   cartName.toLowerCase().includes(listItem.name.toLowerCase().trim()))
IsItemInWishlist(list, cartName) ==
  \E k \in 1..Len(list) :
    Includes(ToLowerCase(cartName), Trim(ToLowerCase(list[k].name)))

(***************************************************************************)
(* Cart store: the updater functions passed to setItems                    *)
(***************************************************************************)
\* a variant that drops the updates
MergeKeepsItem(item, updates) == item

\* { ...item, ...updates }
Merge(item, updates) ==
  [f \in DOMAIN item |-> IF f \in DOMAIN updates THEN updates[f] ELSE item[f]]

\* a variant that merges the updates into every entry
HandleUpdateItemAll(prev, id, updates) ==
  [k \in 1..Len(prev) |-> Merge(prev[k], updates)]

\* prev.map(item => item.id === id ? { ...item, ...updates } : item)
HandleUpdateItem(prev, id, updates) ==
  [k \in 1..Len(prev) |-> IF prev[k].id = id THEN Merge(prev[k], updates) ELSE prev[k]]

\* a variant whose filter is inverted
HandleRemoveItemInverted(prev, id) == SelectSeq(prev, LAMBDA it : it.id = id)

\* prev.filter(item => item.id !== id)
HandleRemoveItem(prev, id) == SelectSeq(prev, LAMBDA it : it.id # id)

Ids(its) == {its[k].id : k \in 1..Len(its)}

\* identifiers the running batch may still need
Reserved == IF pc = "await" THEN Val(analyzingProgress).total - idx ELSE 0

(***************************************************************************)
(* CartItemRow handlers, for the row showing items[k]                      *)
(***************************************************************************)
\* handleIncrement
HandleIncrement(k) ==
  /\ k \in 1..Len(items)
  /\ items[k].quantity < MaxQty
  /\ items' = HandleUpdateItem(items, items[k].id, [quantity |-> items[k].quantity + 1])
  /\ view' = Render(items', budget)
  /\ UNCHANGED <<budget, nextId, removed, batchVars, manual, listVars, apiKey>>

\* a variant without the quantity test: it always lowers the quantity
HandleDecrementUnguarded(k) ==
  /\ k \in 1..Len(items)
  /\ items' = HandleUpdateItem(items, items[k].id, [quantity |-> items[k].quantity - 1])
  /\ view' = Render(items', budget)
  /\ UNCHANGED <<budget, nextId, removed, batchVars, manual, listVars, apiKey>>

\* handleDecrement
HandleDecrement(k) ==
  /\ k \in 1..Len(items)
  /\ IF items[k].quantity > 1
       THEN /\ items' = HandleUpdateItem(items, items[k].id,
                                         [quantity |-> items[k].quantity - 1])
            /\ UNCHANGED removed
       ELSE /\ items' = HandleRemoveItem(items, items[k].id)
            /\ removed' = removed \cup {items[k].id}
  /\ view' = Render(items', budget)
  /\ UNCHANGED <<budget, nextId, batchVars, manual, listVars, apiKey>>

\* handleNameBlur with the text tempName typed into the row's input
HandleNameBlur(k, tempName) ==
  /\ k \in 1..Len(items)
  /\ IF Trim(tempName) # items[k].productName
       THEN items' = HandleUpdateItem(items, items[k].id, [productName |-> tempName])
       ELSE UNCHANGED items
  /\ view' = Render(items', budget)
  /\ UNCHANGED <<budget, nextId, removed, batchVars, manual, listVars, apiKey>>

(***************************************************************************)
(* App handlers: scanning a batch of files                                 *)
(***************************************************************************)
FailedMessage == "Alguns arquivos nao puderam ser processados."

\* a variant that keeps the previous error message when a batch starts
HandleFileChangeKeepsError(n) ==
  /\ pc = "idle"
  /\ ~status.isAnalyzing
  /\ n >= 1
  /\ nextId + n - 1 <= MaxIds
  /\ status' = [isAnalyzing |-> TRUE, error |-> status.error]
  /\ analyzingProgress' = Some([current |-> 1, total |-> n])
  /\ newItems' = <<>>
  /\ errorMsg' = Null
  /\ idx' = 0
  /\ results' = <<>>
  /\ pc' = "await"
  /\ inFlight' = inFlight + 1
  /\ started' = <<1>>
  /\ UNCHANGED <<items, budget, nextId, removed, view, manual, listVars, apiKey>>

\* a variant whose buttons are not disabled while a batch is analysed
HandleFileChangeEnabled(n) ==
  /\ n >= 1
  /\ nextId + n - 1 <= MaxIds
  /\ status' = [isAnalyzing |-> TRUE, error |-> Null]
  /\ analyzingProgress' = Some([current |-> 1, total |-> n])
  /\ newItems' = <<>>
  /\ errorMsg' = Null
  /\ idx' = 0
  /\ results' = <<>>
  /\ pc' = "await"
  /\ inFlight' = inFlight + 1
  /\ started' = <<1>>
  /\ UNCHANGED <<items, budget, nextId, removed, view, manual, listVars, apiKey>>

\* handleFileChange up to its first await, for a selection of n files
HandleFileChange(n) ==
  /\ pc = "idle"
  /\ ~status.isAnalyzing
  /\ n >= 1
  /\ nextId + n - 1 <= MaxIds
  /\ status' = [isAnalyzing |-> TRUE, error |-> Null]
  /\ analyzingProgress' = Some([current |-> 1, total |-> n])
  /\ newItems' = <<>>
  /\ errorMsg' = Null
  /\ idx' = 0
  /\ results' = <<>>
  /\ pc' = "await"
  /\ inFlight' = inFlight + 1
  /\ started' = <<1>>
  /\ UNCHANGED <<items, budget, nextId, removed, view, manual, listVars, apiKey>>

\* a variant whose last step leaves the progress indicator as it is
AfterFileKeepsProgress(pushed, msg) ==
  LET total == Val(analyzingProgress).total
  IN  /\ newItems' = IF idx + 1 < total THEN pushed ELSE <<>>
      /\ errorMsg' = IF idx + 1 < total THEN msg ELSE Null
      /\ IF idx + 1 < total
           THEN /\ idx' = idx + 1
                /\ analyzingProgress' = Some([current |-> idx + 2, total |-> total])
                /\ started' = Append(started, idx + 2)
                /\ UNCHANGED <<items, status, pc, view, inFlight>>
           ELSE /\ items' = pushed \o items
                /\ inFlight' = inFlight - 1
                /\ UNCHANGED <<started, analyzingProgress>>
                /\ status' = [isAnalyzing |-> FALSE, error |-> msg]
                /\ idx' = 0
                /\ pc' = "idle"
                /\ view' = Render(items', budget)

\* a variant whose last step writes the batch's entries over the cart
AfterFileOverwrites(pushed, msg) ==
  LET total == Val(analyzingProgress).total
  IN  /\ newItems' = IF idx + 1 < total THEN pushed ELSE <<>>
      /\ errorMsg' = IF idx + 1 < total THEN msg ELSE Null
      /\ IF idx + 1 < total
           THEN /\ idx' = idx + 1
                /\ analyzingProgress' = Some([current |-> idx + 2, total |-> total])
                /\ started' = Append(started, idx + 2)
                /\ UNCHANGED <<items, status, pc, view, inFlight>>
           ELSE /\ items' = pushed
                /\ inFlight' = inFlight - 1
                /\ UNCHANGED started
                /\ status' = [isAnalyzing |-> FALSE, error |-> msg]
                /\ analyzingProgress' = Null
                /\ idx' = 0
                /\ pc' = "idle"
                /\ view' = Render(items', budget)

\* a variant that puts the batch's entries behind the cart
AfterFileAtEnd(pushed, msg) ==
  LET total == Val(analyzingProgress).total
  IN  /\ newItems' = IF idx + 1 < total THEN pushed ELSE <<>>
      /\ errorMsg' = IF idx + 1 < total THEN msg ELSE Null
      /\ IF idx + 1 < total
           THEN /\ idx' = idx + 1
                /\ analyzingProgress' = Some([current |-> idx + 2, total |-> total])
                /\ started' = Append(started, idx + 2)
                /\ UNCHANGED <<items, status, pc, view, inFlight>>
           ELSE /\ items' = items \o pushed
                /\ inFlight' = inFlight - 1
                /\ UNCHANGED started
                /\ status' = [isAnalyzing |-> FALSE, error |-> msg]
                /\ analyzingProgress' = Null
                /\ idx' = 0
                /\ pc' = "idle"
                /\ view' = Render(items', budget)

\* the rest of one loop iteration and, after the last file, the end of the handler
AfterFile(pushed, msg) ==
  LET total == Val(analyzingProgress).total
  IN  /\ newItems' = IF idx + 1 < total THEN pushed ELSE <<>>
      /\ errorMsg' = IF idx + 1 < total THEN msg ELSE Null
      /\ IF idx + 1 < total
           THEN /\ idx' = idx + 1
                /\ analyzingProgress' = Some([current |-> idx + 2, total |-> total])
                /\ started' = Append(started, idx + 2)
                /\ UNCHANGED <<items, status, pc, view, inFlight>>
           ELSE /\ items' = pushed \o items
                /\ inFlight' = inFlight - 1
                /\ UNCHANGED started
                /\ status' = [isAnalyzing |-> FALSE, error |-> msg]
                /\ analyzingProgress' = Null
                /\ idx' = 0
                /\ pc' = "idle"
                /\ view' = Render(items', budget)

\* the CartItem built from an analysis result
ScannedCartItem(id, result) ==
  [id |-> id,
   productName |-> result.productName,
   price |-> result.price,
   category |-> result.category,
   measureValue |-> result.measureValue,
   measureUnit |-> result.measureUnit,
   quantity |-> 1]

\* await analyzeProductImage(files[i]) returns result
AnalyzeResolved(result) ==
  /\ pc = "await"
  /\ apiKey # <<>>
  /\ nextId <= MaxIds
  /\ nextId' = nextId + 1
  /\ results' = Append(results, "ok")
  /\ AfterFile(Append(newItems, ScannedCartItem(nextId, result)), errorMsg)
  /\ UNCHANGED <<budget, removed, manual, listVars, apiKey>>

\* a variant whose catch sits outside the loop: the first failure ends the batch
AnalyzeRejectedAborts ==
  /\ pc = "await"
  /\ apiKey # <<>>
  /\ results' = Append(results, "fail")
  /\ newItems' = <<>>
  /\ errorMsg' = Null
  /\ items' = newItems \o items
  /\ status' = [isAnalyzing |-> FALSE, error |-> Some(FailedMessage)]
  /\ analyzingProgress' = Null
  /\ idx' = 0
  /\ pc' = "idle"
  /\ inFlight' = inFlight - 1
  /\ UNCHANGED started
  /\ view' = Render(items', budget)
  /\ UNCHANGED <<budget, nextId, removed, manual, listVars, apiKey>>

\* await analyzeProductImage(files[i]) throws with a key: the file cannot be read,
\* the call fails, the answer is empty or is not JSON
AnalyzeRejected ==
  /\ pc = "await"
  /\ apiKey # <<>>
  /\ results' = Append(results, "fail")
  /\ AfterFile(newItems, Some(FailedMessage))
  /\ UNCHANGED <<budget, nextId, removed, manual, listVars, apiKey>>

\* await analyzeProductImage(files[i]) throws at its first statement: there is no
\* key, and neither the file reader nor the extraction model is reached
AnalyzeWithoutKey ==
  /\ pc = "await"
  /\ apiKey = <<>>
  /\ results' = Append(results, "nokey")
  /\ AfterFile(newItems, Some(FailedMessage))
  /\ UNCHANGED <<budget, nextId, removed, manual, listVars, apiKey>>

(***************************************************************************)
(* App handlers: manual entry, clearing, budget                            *)
(***************************************************************************)
\* the CartItem handleAddManualItem builds from the form texts
ManualCartItem(id, manualName, priceValue, manualSize) ==
  LET match == IF Trim(manualSize) # <<>> THEN MatchSize(manualSize) ELSE Null
  IN  [id |-> id,
       productName |-> Trim(manualName),
       price |-> priceValue,
       quantity |-> 1,
       category |-> Some(ToLowerCase(FirstWord(manualName))),
       measureValue |-> IF IsSome(match) THEN ParseFloat(Val(match).num) ELSE Null,
       measureUnit |-> IF IsSome(match) THEN Some(ToLowerCase(Val(match).unit)) ELSE Null]

\* the form as useState leaves it and as a successful submission resets it
ClosedForm == [isOpen |-> FALSE, name |-> <<>>, price |-> <<>>, size |-> <<>>]
OpenForm(manualName, manualPrice, manualSize) ==
  [isOpen |-> TRUE, name |-> manualName, price |-> manualPrice, size |-> manualSize]

\* a variant without the early returns: an empty or unreadable price counts as 0
HandleAddManualItemUnchecked(manualName, manualPrice, manualSize) ==
  LET priceValue == ParseFloat(ReplaceComma(manualPrice))
  IN  /\ nextId + Reserved <= MaxIds
      /\ items' = <<ManualCartItem(nextId, manualName,
                                   IF IsSome(priceValue) THEN Val(priceValue) ELSE 0,
                                   manualSize)>> \o items
      /\ nextId' = nextId + 1
      /\ manual' = ClosedForm
      /\ view' = Render(items', budget)
      /\ UNCHANGED <<budget, removed, batchVars, listVars, apiKey>>

\* handleAddManualItem, submitted from the open form holding the three texts; both
\* early returns leave the form as it is
HandleAddManualItem(manualName, manualPrice, manualSize) ==
  LET priceValue == ParseFloat(ReplaceComma(manualPrice))
  IN  /\ nextId + Reserved <= MaxIds
      /\ IF Trim(manualName) = <<>> \/ Trim(manualPrice) = <<>>
           THEN /\ manual' = OpenForm(manualName, manualPrice, manualSize)
                /\ UNCHANGED <<items, nextId, view, alerts>>
           ELSE IF ~IsSome(priceValue)
           THEN /\ alerts < MaxAlerts
                /\ alerts' = alerts + 1
                /\ manual' = OpenForm(manualName, manualPrice, manualSize)
                /\ UNCHANGED <<items, nextId, view>>
           ELSE /\ items' = <<ManualCartItem(nextId, manualName, Val(priceValue), manualSize)>>
                            \o items
                /\ nextId' = nextId + 1
                /\ manual' = ClosedForm
                /\ view' = Render(items', budget)
                /\ UNCHANGED alerts
      /\ UNCHANGED <<budget, removed, batchVars, shoppingList, isListAnalyzing,
                     listCalls, apiKey>>

\* a variant that does not ask: the cart is emptied whatever the answer
HandleClearAllUnasked(confirmed) ==
  /\ items # <<>>
  /\ items' = <<>>
  /\ removed' = removed \cup Ids(items)
  /\ view' = Render(items', budget)
  /\ UNCHANGED <<budget, nextId, batchVars, manual, listVars, apiKey>>

\* handleClearAll; confirmed is the answer of window.confirm
HandleClearAll(confirmed) ==
  /\ items # <<>>
  /\ IF confirmed
       THEN /\ items' = <<>>
            /\ removed' = removed \cup Ids(items)
       ELSE UNCHANGED <<items, removed>>
  /\ view' = Render(items', budget)
  /\ UNCHANGED <<budget, nextId, batchVars, manual, listVars, apiKey>>

\* handleSetBudget with the text of the budget input
HandleSetBudget(tempBudget) ==
  LET val == ParseFloat(ReplaceComma(tempBudget))
  IN  /\ budget' = IF tempBudget = <<>> THEN Null
                   ELSE IF IsSome(val) THEN val ELSE budget
      /\ view' = Render(items, budget')
      /\ UNCHANGED <<items, nextId, removed, batchVars, manual, listVars, apiKey>>

\* the "Remover Limite" button
RemoveBudget ==
  /\ budget' = Null
  /\ view' = Render(items, budget')
  /\ UNCHANGED <<items, nextId, removed, batchVars, manual, listVars, apiKey>>

(***************************************************************************)
(* Inputs                                                                  *)
(***************************************************************************)
Str1(a) == <<a>>
Str2(a, b) == <<a, b>>
Str3(a, b, c) == <<a, b, c>>

Product(name, price, category, value, unit) ==
  [productName |-> name, price |-> price, category |-> category,
   measureValue |-> value, measureUnit |-> unit]

\* answers of the extraction model
ScanResults ==
  { Product(Str1("a"), 10000, Some(Str1("x")), Null, Null) }

\* texts of the manual-entry form; the price input has type="number", whose
\* value is '' or a decimal with '.'
ManualNames == { Str3("A", " ", "b") }
ManualPrices == { Str3("4", ".", "5") }
ManualSizes == { <<>> }
\* texts typed into a row's name input
TempNames == { Str2("a", " ") }

(***************************************************************************)
(* The application: the cart store and the batch scan.  Spec explores the  *)
(* handlers on priced products without package sizes, in a build that has  *)
(* a key; its manual entries are the form opened, filled with texts the    *)
(* handler accepts and submitted, seen as one step.  Below, SpecCompare    *)
(* and SpecCategory feed the same handlers measured products, SpecBudget   *)
(* and SpecSignedBudget add the budget form, SpecCredential the build      *)
(* without a key, SpecLive the return of every awaited call, SpecShare     *)
(* products priced below the cent, SpecManual the manual-entry form field  *)
(* by field, SpecRename the row's name field and SpecList the shopping     *)
(* list and its import.                                                    *)
(***************************************************************************)
\* the state after App is constructed in a build whose API_KEY is key
Start(key) ==
  /\ items = <<>>
  /\ status = [isAnalyzing |-> FALSE, error |-> Null]
  /\ analyzingProgress = Null
  /\ budget = Null
  /\ pc = "idle"
  /\ idx = 0
  /\ newItems = <<>>
  /\ errorMsg = Null
  /\ nextId = 1
  /\ removed = {}
  /\ results = <<>>
  /\ view = Render(<<>>, Null)
  /\ inFlight = 0
  /\ started = <<>>
  /\ manual = ClosedForm
  /\ shoppingList = <<>>
  /\ isListAnalyzing = FALSE
  /\ listCalls = 0
  /\ alerts = 0
  /\ apiKey = key

Init == Start(Str1("k"))

Increment == \E k \in 1..MaxIds : HandleIncrement(k)
Decrement == \E k \in 1..MaxIds : HandleDecrement(k)
Rename == \E k \in 1..MaxIds : \E t \in TempNames : HandleNameBlur(k, t)
AddManual ==
  \E n \in ManualNames : \E p \in ManualPrices : \E z \in ManualSizes :
    HandleAddManualItem(n, p, z)
StartBatch == \E n \in 1..MaxFiles : HandleFileChange(n)
FileAnalyzed == \E r \in ScanResults : AnalyzeResolved(r)
FileFailed == AnalyzeRejected
ClearAll == \E c \in BOOLEAN : HandleClearAll(c)

Next ==
  \/ Increment
  \/ Decrement
  \/ Rename
  \/ AddManual
  \/ StartBatch
  \/ FileAnalyzed
  \/ FileFailed
  \/ ClearAll

Spec == Init /\ [][Next]_vars

(***************************************************************************)
(* The comparison engine on carts of measured products                     *)
(***************************************************************************)
\* answers of the extraction model with package sizes (500 is 500.00)
CompareResults ==
  { Product(Str1("a"), 10000, Some(Str1("x")), Some(500000), Some(Str1("g"))),
    Product(Str1("b"), 22000, Some(Str1("x")), Some(1000), Some(Str2("k", "g"))),
    Product(Str1("b"), 20000, Some(Str1("x")), Some(1000), Some(Str2("k", "g"))),
    Product(Str1("a"), 3000, Some(Str1("x")), Some(100000), Some(Str1("g"))),
    Product(Str1("a"), 1000, Some(Str1("x")), Null, Some(Str1("g"))),
    Product(Str1("b"), 1000, Some(Str1("x")), Some(100000), Null),
    Product(Str1("a"), 4000, Null, Some(1000), Some(Str1("l"))) }
CompareSizes == { Str3("1", "K", "G"), Str3("2", "u", "n") }

CompareScan == HandleFileChange(1)
CompareAnalyzed == \E r \in CompareResults : AnalyzeResolved(r)
CompareManual ==
  \E z \in CompareSizes : HandleAddManualItem(Str3("A", " ", "b"), Str3("4", ".", "5"), z)

NextCompare ==
  \/ CompareScan
  \/ CompareAnalyzed
  \/ CompareManual
  \/ Decrement

SpecCompare == Init /\ [][NextCompare]_vars

(***************************************************************************)
(* The comparison engine on categories spelled in different ways           *)
(***************************************************************************)
\* answers of the extraction model: one package size, six category texts
Categories ==
  { Some(Str1("A")), Some(Str1("a")), Some(Str3("a", "_", "b")),
    Some(Str3("a", " ", "b")), Some(Outros), Null }
CategoryResults ==
  { Product(Str1("a"), 10000, c, Some(100000), Some(Str1("g"))) : c \in Categories }

CategoryAnalyzed == \E r \in CategoryResults : AnalyzeResolved(r)

NextCategory ==
  \/ CompareScan
  \/ CategoryAnalyzed
  \/ Decrement

SpecCategory == Init /\ [][NextCategory]_vars

(***************************************************************************)
(* The budget against carts of priced products                             *)
(***************************************************************************)
\* texts of the budget input (type="number": '' or a decimal with '.')
BudgetTexts == { <<>>, Str1("0"), Str2("5", "0") }
SignedBudgetTexts == BudgetTexts \cup { Str2("-", "5") }
BudgetPrices == { Str2("3", "0"), Str3("4", ".", "5") }

BudgetAdd == \E p \in BudgetPrices : HandleAddManualItem(Str1("a"), p, <<>>)
SetBudget == \E t \in BudgetTexts : HandleSetBudget(t)
SetSignedBudget == \E t \in SignedBudgetTexts : HandleSetBudget(t)

NextBudget ==
  \/ BudgetAdd
  \/ Increment
  \/ Decrement
  \/ SetBudget
  \/ RemoveBudget

SpecBudget == Init /\ [][NextBudget]_vars

NextSignedBudget ==
  \/ BudgetAdd
  \/ Increment
  \/ Decrement
  \/ SetSignedBudget
  \/ RemoveBudget

SpecSignedBudget == Init /\ [][NextSignedBudget]_vars

(***************************************************************************)
(* Scanning in builds with and without a credential                        *)
(***************************************************************************)
\* process.env.API_KEY || '' of the two builds
ApiKeys == { <<>>, Str1("k") }
InitCredential == \E key \in ApiKeys : Start(key)

FileWithoutKey == AnalyzeWithoutKey

NextCredential ==
  \/ StartBatch
  \/ FileAnalyzed
  \/ FileFailed
  \/ FileWithoutKey
  \/ AddManual
  \/ Decrement

SpecCredential == InitCredential /\ [][NextCredential]_vars

(***************************************************************************)
(* Batches whose analysis calls all return                                 *)
(***************************************************************************)
\* an outstanding call returns or throws
FileReturned == FileAnalyzed \/ FileFailed

NextLive ==
  \/ StartBatch
  \/ FileAnalyzed
  \/ FileFailed
  \/ AddManual
  \/ Decrement

\* the extraction model answers or fails every call
SpecLive == Init /\ [][NextLive]_vars /\ WF_vars(FileReturned)

(***************************************************************************)
(* Carts of scanned products whose prices the service passes on as read    *)
(***************************************************************************)
ShareResults ==
  { Product(Str1("a"), 333, Some(Str1("x")), Null, Null),
    Product(Str1("b"), 1000500, Some(Str1("x")), Null, Null),
    Product(<<"a", " ", "-", " ", "b">>, 12500, Null, Null, Null) }

ShareAnalyzed == \E r \in ShareResults : AnalyzeResolved(r)

NextShare ==
  \/ CompareScan
  \/ ShareAnalyzed
  \/ Increment
  \/ Decrement

SpecShare == Init /\ [][NextShare]_vars

(***************************************************************************)
(* The manual-entry form, field by field                                   *)
(***************************************************************************)
\* the "Adicionar Manualmente" button; the open modal covers it
OpenManual ==
  /\ ~manual.isOpen
  /\ manual' = [manual EXCEPT !.isOpen = TRUE]
  /\ UNCHANGED <<items, budget, nextId, removed, view, batchVars, listVars, apiKey>>

\* the "Cancelar" button: the modal closes, the texts stay
CancelManual ==
  /\ manual.isOpen
  /\ manual' = [manual EXCEPT !.isOpen = FALSE]
  /\ UNCHANGED <<items, budget, nextId, removed, view, batchVars, listVars, apiKey>>

\* onChange of one of the three inputs
TypeManual(field, text) ==
  /\ manual.isOpen
  /\ manual' = [manual EXCEPT ![field] = text]
  /\ UNCHANGED <<items, budget, nextId, removed, view, batchVars, listVars, apiKey>>

\* the form's onSubmit
SubmitManual ==
  /\ manual.isOpen
  /\ HandleAddManualItem(manual.name, manual.price, manual.size)

\* texts of the form; the price input has type="number", whose value is '' for
\* whatever the browser does not read as a number
FormNames == { <<>>, Str1(" "), Str3("A", " ", "b") }
FormPrices == { <<>>, Str3("4", ".", "5") }
FormSizes == { <<>>, Str2("u", "n") }

TypeManualName == \E t \in FormNames : TypeManual("name", t)
TypeManualPrice == \E t \in FormPrices : TypeManual("price", t)
TypeManualSize == \E t \in FormSizes : TypeManual("size", t)

NextManual ==
  \/ OpenManual
  \/ CancelManual
  \/ TypeManualName
  \/ TypeManualPrice
  \/ TypeManualSize
  \/ SubmitManual
  \/ Decrement

SpecManual == Init /\ [][NextManual]_vars

(***************************************************************************)
(* Renaming entries made by manual entry                                   *)
(***************************************************************************)
\* texts left in a row's name input when it loses the focus
RenameTexts == { <<>>, Str1(" "), Str2("a", " "), Str1("b") }

RenameManual == \E k \in 1..MaxIds : \E t \in RenameTexts : HandleNameBlur(k, t)

NextRename ==
  \/ AddManual
  \/ RenameManual
  \/ Increment
  \/ Decrement

SpecRename == Init /\ [][NextRename]_vars

(***************************************************************************)
(* The shopping list beside the cart                                       *)
(***************************************************************************)
ListItem(id, name) == [id |-> id, name |-> name, isChecked |-> FALSE]

\* handleAddShoppingListItem with the text of the list's input
HandleAddShoppingListItem(newListItemName) ==
  /\ nextId + Reserved <= MaxIds
  /\ IF Trim(newListItemName) = <<>>
       THEN UNCHANGED <<shoppingList, nextId>>
       ELSE /\ shoppingList' = Append(shoppingList, ListItem(nextId, Trim(newListItemName)))
            /\ nextId' = nextId + 1
  /\ UNCHANGED <<items, budget, removed, view, batchVars, manual,
                 isListAnalyzing, listCalls, alerts, apiKey>>

\* handleToggleListItem, for the row showing shoppingList[k]
HandleToggleListItem(k) ==
  /\ k \in 1..Len(shoppingList)
  /\ shoppingList' = [j \in 1..Len(shoppingList) |->
                        IF shoppingList[j].id = shoppingList[k].id
                          THEN [shoppingList[j] EXCEPT !.isChecked = ~shoppingList[j].isChecked]
                          ELSE shoppingList[j]]
  /\ UNCHANGED <<items, budget, nextId, removed, view, batchVars, manual,
                 isListAnalyzing, listCalls, alerts, apiKey>>

\* handleDeleteListItem, for the row showing shoppingList[k]
HandleDeleteListItem(k) ==
  /\ k \in 1..Len(shoppingList)
  /\ shoppingList' = SelectSeq(shoppingList, LAMBDA i : i.id # shoppingList[k].id)
  /\ UNCHANGED <<items, budget, nextId, removed, view, batchVars, manual,
                 isListAnalyzing, listCalls, alerts, apiKey>>

\* handleImportList up to its await, for the file chosen in the dialog
HandleImportList ==
  /\ listCalls < MaxImports
  /\ isListAnalyzing' = TRUE
  /\ listCalls' = listCalls + 1
  /\ UNCHANGED <<items, budget, nextId, removed, view, batchVars, manual,
                 shoppingList, alerts, apiKey>>

\* names.map(name => ({ id: uuidv4(), name, isChecked: false }))
RECURSIVE ImportedItems(_, _)
ImportedItems(names, id) ==
  IF names = <<>> THEN <<>>
  ELSE <<ListItem(id, Head(names))>> \o ImportedItems(Tail(names), id + 1)

\* a variant that puts the imported entries in front of the list
ImportResolvedInFront(names) ==
  /\ listCalls > 0
  /\ apiKey # <<>>
  /\ nextId + Len(names) - 1 <= MaxIds
  /\ shoppingList' = ImportedItems(names, nextId) \o shoppingList
  /\ nextId' = nextId + Len(names)
  /\ isListAnalyzing' = FALSE
  /\ listCalls' = listCalls - 1
  /\ UNCHANGED <<items, budget, removed, view, batchVars, manual, alerts, apiKey>>

\* await extractShoppingList(file) returns names; then the finally block
ImportResolved(names) ==
  /\ listCalls > 0
  /\ apiKey # <<>>
  /\ nextId + Len(names) - 1 <= MaxIds
  /\ shoppingList' = shoppingList \o ImportedItems(names, nextId)
  /\ nextId' = nextId + Len(names)
  /\ isListAnalyzing' = FALSE
  /\ listCalls' = listCalls - 1
  /\ UNCHANGED <<items, budget, removed, view, batchVars, manual, alerts, apiKey>>

\* await extractShoppingList(file) throws (no key, an unreadable file, a failed
\* call, an answer that is not JSON): the catch block, then the finally block
ImportRejected ==
  /\ listCalls > 0
  /\ alerts < MaxAlerts
  /\ alerts' = alerts + 1
  /\ isListAnalyzing' = FALSE
  /\ listCalls' = listCalls - 1
  /\ UNCHANGED <<items, budget, nextId, removed, view, batchVars, manual,
                 shoppingList, apiKey>>

\* texts typed into the list's input, answers of the list extraction, and the
\* products put into the cart beside the list
ListTexts == { Str1(" "), Str3("A", " ", "b") }
ImportNames == { <<>>, <<Str1("a")>>, <<Str1("B"), Str1("a")>> }
ListCartNames == { Str1("a"), Str3("A", " ", "b") }

AddListItem == \E t \in ListTexts : HandleAddShoppingListItem(t)
ToggleListItem == \E k \in 1..MaxIds : HandleToggleListItem(k)
DeleteListItem == \E k \in 1..MaxIds : HandleDeleteListItem(k)
StartImport == HandleImportList
ImportDone == \E names \in ImportNames : ImportResolved(names)
ImportFailed == ImportRejected
ListCartAdd == \E n \in ListCartNames : HandleAddManualItem(n, Str3("4", ".", "5"), <<>>)
SetListBudget == HandleSetBudget(Str2("5", "0"))

NextList ==
  \/ AddListItem
  \/ ToggleListItem
  \/ DeleteListItem
  \/ StartImport
  \/ ImportDone
  \/ ImportFailed
  \/ ListCartAdd
  \/ SetListBudget
  \/ ClearAll

SpecList == Init /\ [][NextList]_vars

(***************************************************************************)
(* Properties of the cart store                                            *)
(***************************************************************************)
RECURSIVE SumOver(_, _)
SumOver(S, f) ==
  IF S = {} THEN 0
  ELSE LET x == CHOOSE y \in S : TRUE IN f[x] + SumOver(S \ {x}, f)

LineAmounts == [k \in DOMAIN items |-> items[k].price * items[k].quantity]
Quantities == [k \in DOMAIN items |-> items[k].quantity]

\* C1: after any sequence of cart operations the displayed total cost is the
\* sum of price x quantity over exactly the entries in the cart, the displayed
\* item count is the sum of their quantities, and no entry that was removed is
\* still in the cart to contribute.
C1_TotalsMatchCart ==
  /\ view.totalCost = SumOver(DOMAIN items, LineAmounts)
  /\ view.itemCount = SumOver(DOMAIN items, Quantities)
  /\ Ids(items) \cap removed = {}
  /\ Cardinality(Ids(items)) = Len(items)

\* an entry was removed, and two entries of different prices remain, one of
\* them with quantity 2
C1_Witness ==
  /\ removed # {}
  /\ Len(items) = 2
  /\ items[1].price # items[2].price
  /\ \E k \in DOMAIN items : items[k].quantity = 2
  /\ view.totalCost > 0

\* C2: every entry in the cart has quantity >= 1, and so has every entry a
\* running batch has collected.
C2_QuantityPositive ==
  /\ \A k \in DOMAIN items : items[k].quantity >= 1
  /\ \A k \in DOMAIN newItems : newItems[k].quantity >= 1

\* the second of three entries was decremented out of the cart (a clear would
\* have taken the first as well) and the two that remain sit at quantity 1
C2_Witness ==
  /\ removed = {2}
  /\ Len(items) = 2
  /\ \A k \in DOMAIN items : items[k].quantity = 1

WithoutIndex(s, k) == SubSeq(s, 1, k - 1) \o SubSeq(s, k + 1, Len(s))

\* C3: a decrement of the row at position k removes the entry when its
\* quantity is 1 and otherwise lowers its quantity by exactly 1; every other
\* entry and the order of the remaining entries are unchanged.
C3_Decrement ==
  [][\A k \in 1..MaxIds :
       HandleDecrement(k) =>
         IF items[k].quantity = 1
           THEN items' = WithoutIndex(items, k)
           ELSE /\ Len(items') = Len(items)
                /\ items'[k] = [items[k] EXCEPT !.quantity = items[k].quantity - 1]
                /\ \A j \in DOMAIN items : j # k => items'[j] = items[j]]_vars

\* the middle one of three entries was decremented away: its neighbours
\* remain in their order, the older one still holding its quantity of 2
C3_Witness ==
  /\ Len(items) = 2
  /\ removed = {2}
  /\ items[1].id = 3
  /\ items[2].id = 1
  /\ items[2].quantity = 2

(***************************************************************************)
(* Properties of a batch                                                   *)
(***************************************************************************)
Successes(rs) == Cardinality({k \in DOMAIN rs : rs[k] = "ok"})
Failures(rs) == Cardinality({k \in DOMAIN rs : rs[k] # "ok"})
BatchCompletes == status.isAnalyzing /\ ~status'.isAnalyzing

\* C9: when a batch completes every file of it has been attempted, and the
\* cart gains, in front of what it held, exactly one new entry of quantity 1
\* per file that succeeded and nothing for a file that failed.
C9_BatchGain ==
  [][BatchCompletes =>
       LET n == Successes(results')
       IN  /\ Len(results') = Val(analyzingProgress).total
           /\ Len(items') = Len(items) + n
           /\ SubSeq(items', n + 1, Len(items')) = items
           /\ \A j \in 1..n : /\ items'[j].quantity = 1
                              /\ items'[j].id \notin Ids(items)
           /\ Cardinality({items'[j].id : j \in 1..n}) = n]_vars

\* a batch whose first file failed and whose second file succeeded has completed
C9_Witness ==
  /\ ~status.isAnalyzing
  /\ results = <<"fail", "ok">>
  /\ items # <<>>

\* C10: the batch error message is absent from the start of a batch until it
\* completes, whatever the batch before left; once the batch has completed it
\* is present exactly when a file of that batch failed.
C10_ErrorMessage ==
  /\ status.isAnalyzing => status.error = Null
  /\ ~status.isAnalyzing => (status.error # Null <=> Failures(results) >= 1)
  /\ status.isAnalyzing <=> pc = "await"

\* a batch in which two files failed has completed and left the one message
C10_Witness ==
  /\ ~status.isAnalyzing
  /\ status.error = Some(FailedMessage)
  /\ Failures(results) = 2

(***************************************************************************)
(* Properties of the comparison engine                                     *)
(***************************************************************************)
Kilo == Str2("k", "g")
Litre == Str1("l")

\* the normalized unit price of a measured entry: its price divided by its
\* measure, the measure taken 1000 times for kg and l
UnitPrice(it) ==
  Ratio(it.price,
        Val(it.measureValue) * (IF Val(it.measureUnit) \in {Kilo, Litre} THEN 1000 ELSE 1))

Flagged(g) == {j \in DOMAIN g : g[j].id \in view.bestValueIds}
GroupsOfTwo == {c \in DOMAIN view.comparisonGroups : Len(view.comparisonGroups[c]) >= 2}

\* C4: in every comparison group of at least 2 entries an entry is flagged
\* best value, and the normalized unit price of a flagged entry is less than
\* or equal to that of every other entry of the group.
C4_BestValueCheapest ==
  \A c \in GroupsOfTwo :
    LET g == view.comparisonGroups[c]
    IN  /\ Flagged(g) # {}
        /\ \A j \in Flagged(g) : \A m \in DOMAIN g :
             RatioLeq(UnitPrice(g[j]), UnitPrice(g[m]))

\* the example of the specification: 22.00 for 1 kg was added after 10.00 for
\* 500 g, and the older, cheaper per gram entry is the one flagged
C4_Witness ==
  /\ Len(items) = 2
  /\ items[1].price = 22000 /\ items[1].measureUnit = Some(Kilo)
  /\ items[2].price = 10000 /\ items[2].measureValue = Some(500000)
  /\ view.bestValueIds = {items[2].id}

InSomeGroup(id) ==
  \E c \in DOMAIN view.comparisonGroups :
    \E j \in DOMAIN view.comparisonGroups[c] : view.comparisonGroups[c][j].id = id

\* C5: an entry that lacks a measure value or lacks a measure unit is in no
\* comparison group and is not flagged best value.
C5_UnmeasuredExcluded ==
  \A k \in DOMAIN items :
    (items[k].measureValue = Null \/ items[k].measureUnit = Null) =>
      /\ ~InSomeGroup(items[k].id)
      /\ items[k].id \notin view.bestValueIds

\* a group has a flagged entry while the cart holds an entry without a unit
\* whose price is the lowest of the cart
C5_Witness ==
  /\ view.bestValueIds # {}
  /\ \E k \in DOMAIN items :
       /\ items[k].measureUnit = Null
       /\ items[k].measureValue # Null
       /\ \A j \in DOMAIN items : items[k].price <= items[j].price

\* C6: a group of one entry flags nothing, a group of two or more flags
\* exactly its first entry; so there are as many flagged entries as groups of
\* two or more, and every flagged identifier is that of an entry in the cart.
C6_OneFlagPerGroup ==
  /\ \A c \in DOMAIN view.comparisonGroups :
       LET g == view.comparisonGroups[c]
       IN  /\ Len(g) >= 1
           /\ Flagged(g) = IF Len(g) >= 2 THEN {1} ELSE {}
  /\ Cardinality(view.bestValueIds) = Cardinality(GroupsOfTwo)
  /\ view.bestValueIds \subseteq Ids(items)

\* a group of one entry and a group of two entries are shown together
C6_Witness ==
  /\ \E c \in DOMAIN view.comparisonGroups : Len(view.comparisonGroups[c]) = 1
  /\ GroupsOfTwo # {}
  /\ Cardinality(view.bestValueIds) = 1

(***************************************************************************)
(* Properties of the budget                                                *)
(***************************************************************************)
InPercentRange(r) == RatioLeq(Whole(0), r) /\ RatioLeq(r, Whole(100))

\* C7: whenever a budget is set and the cart total exceeds it, the over-budget
\* flag is true, the displayed usage percentage is 100 and the remaining
\* budget is budget minus total, a negative number.
C7_OverBudget ==
  (IsSome(budget) /\ view.totalCost > Val(budget)) =>
    /\ view.isOverBudget
    /\ RatioEq(view.budgetPercentage, Whole(100))
    /\ view.remainingBudget = Val(budget) - view.totalCost
    /\ view.remainingBudget < 0

\* C8: the budget is unset or a non-negative number, and the displayed usage
\* percentage lies between 0 and 100: it is 0 when no budget is set and
\* min(100, total / budget x 100) when one is set.
C8_BudgetRange ==
  /\ budget = Null \/ Val(budget) >= 0
  /\ InPercentRange(view.budgetPercentage)
  /\ budget = Null => RatioEq(view.budgetPercentage, Whole(0))
  /\ (IsSome(budget) /\ Val(budget) > 0) =>
       RatioEq(view.budgetPercentage,
               IF view.totalCost >= Val(budget)
                 THEN Whole(100) ELSE Ratio(view.totalCost * 100, Val(budget)))
  /\ (budget = Some(0) /\ view.totalCost > 0) =>
       RatioEq(view.budgetPercentage, Whole(100))

(***************************************************************************)
(* Properties of the manual-entry form                                     *)
(***************************************************************************)
Blank(s) == \A k \in DOMAIN s : s[k] = " "
\* a decimal numeral: digits with at most one point
IsDecimalText(s) ==
  /\ \E k \in DOMAIN s : s[k] \in Digits
  /\ \A k \in DOMAIN s : s[k] \in Digits \cup {"."}
  /\ Cardinality({k \in DOMAIN s : s[k] = "."}) <= 1
InvalidSubmission ==
  Blank(manual.name) \/ Blank(manual.price) \/ ~IsDecimalText(manual.price)

\* C11: submitting the manual-entry form with a name that is empty or with a
\* price text that is empty or not a number creates no entry, leaves the
\* cart as it was and leaves the form open with the texts that were entered.
C11_InvalidSubmission ==
  [][SubmitManual /\ InvalidSubmission
       => /\ items' = items
          /\ nextId' = nextId
          /\ manual' = manual
          /\ manual'.isOpen]_vars

\* the state a rejected submission leaves: a cart with an entry, the form still
\* open with the name that was typed and the price the browser could not read
C11_Witness ==
  /\ manual.isOpen
  /\ manual.name = Str3("A", " ", "b")
  /\ manual.price = <<>>
  /\ items # <<>>

(***************************************************************************)
(* Properties of the list import                                           *)
(***************************************************************************)
ImportReturns == listCalls' = listCalls - 1
Names(list) == [k \in DOMAIN list |-> list[k].name]

\* C12: when a list import fails, the shopping list and the cart are left as
\* they were, exactly one alert is raised and the list-analyzing indicator is
\* false again; when it succeeds, the extracted names are appended after the
\* entries the list already had, in the order returned, each unchecked.
C12_ListImport ==
  [][ImportReturns
       => /\ ~isListAnalyzing'
          /\ items' = items
          /\ IF alerts' # alerts
               THEN /\ alerts' = alerts + 1
                    /\ shoppingList' = shoppingList
               ELSE \E names \in ImportNames :
                      /\ Len(shoppingList') = Len(shoppingList) + Len(names)
                      /\ SubSeq(shoppingList', 1, Len(shoppingList)) = shoppingList
                      /\ Names(SubSeq(shoppingList', Len(shoppingList) + 1,
                                      Len(shoppingList'))) = names
                      /\ \A k \in (Len(shoppingList) + 1)..Len(shoppingList') :
                           ~shoppingList'[k].isChecked]_vars

\* one import failed and one import returned a name after a typed entry, next to
\* a cart with an entry
C12_Witness ==
  /\ alerts = 1
  /\ listCalls = 0
  /\ ~isListAnalyzing
  /\ items # <<>>
  /\ Names(shoppingList) = <<Str3("A", " ", "b"), Str1("a")>>

(***************************************************************************)
(* Properties of the missing credential                                    *)
(***************************************************************************)
\* C13: without a credential every analysis attempt fails before the
\* extraction model is reached, and the failure is shown as soon as the
\* attempt has failed, not only after the remaining files of the batch.
C13_MissingCredential ==
  apiKey = <<>>
    => /\ \A k \in DOMAIN results : results[k] = "nokey"
       /\ results # <<>> => status.error # Null

(***************************************************************************)
(* Properties of the cart's order                                          *)
(***************************************************************************)
\* identifiers are handed out in creation order
IdsOf(its) == [k \in DOMAIN its |-> its[k].id]

\* C14 as stated: the cart is newest-first, every entry created later
\* preceding every entry created earlier, entries of one batch included.
C14_NewestFirst ==
  \A j, k \in DOMAIN items : j < k => items[j].id > items[k].id

\* C14, amended: every add puts its new entries in front of the entries the
\* cart already holds, which keep their order; the entries of one batch
\* arrive together and stand in the order of their files, earliest first.
C14_AddsInFront ==
  [][Len(items') > Len(items)
       => LET n == Len(items') - Len(items)
          IN  /\ SubSeq(items', n + 1, Len(items')) = items
              /\ \A j \in 1..n : items'[j].id \notin Ids(items)
              /\ \A j, k \in 1..n : j < k => items'[j].id < items'[k].id]_vars

\* a batch of two files with a manual entry made between its two answers
C14_Witness == IdsOf(items) = <<1, 3, 2>>

(***************************************************************************)
(* Properties of Update and Clear                                          *)
(***************************************************************************)
\* field sets a row passes to onUpdate
UpdateFields == { [quantity |-> 2], [productName |-> Str2("a", " ")] }
Merged(item, fields) ==
  [f \in DOMAIN item |-> IF f \in DOMAIN fields THEN fields[f] ELSE item[f]]

\* C15: Update(id, fields) gives the entry whose identifier is id the given
\* fields and leaves every other entry, the number of entries and their
\* order as they were; when no entry has that identifier, the cart is
\* exactly as before.
C15_Update ==
  \A id \in 1..MaxIds : \A fields \in UpdateFields :
    LET updated == HandleUpdateItem(items, id, fields)
    IN  /\ Len(updated) = Len(items)
        /\ \A k \in DOMAIN items :
             updated[k] = IF items[k].id = id THEN Merged(items[k], fields) ELSE items[k]
        /\ id \notin Ids(items) => updated = items

\* a cart of two entries, one renamed and raised by updates, after an entry was
\* removed whose identifier no entry has any more
C15_Witness ==
  /\ Len(items) = 2
  /\ removed # {}
  /\ removed \cap Ids(items) = {}
  /\ \E k \in DOMAIN items : items[k].quantity = 2 /\ items[k].productName = Str2("a", " ")

\* C16: Clear empties the cart only when the user confirms; when the user
\* declines, the cart is unchanged; in both cases the budget and the
\* shopping list are unchanged.
C16_Clear ==
  [][\A confirmed \in BOOLEAN :
       HandleClearAll(confirmed)
         => /\ items' = IF confirmed THEN <<>> ELSE items
            /\ budget' = budget
            /\ shoppingList' = shoppingList]_vars

\* a confirmed Clear has emptied a cart beside a budget and a shopping list
C16_Witness ==
  /\ items = <<>>
  /\ removed # {}
  /\ budget # Null
  /\ shoppingList # <<>>

(***************************************************************************)
(* Properties of the comparison groups                                     *)
(***************************************************************************)
SameGroup(a, b) ==
  \E c \in DOMAIN view.comparisonGroups :
    LET g == view.comparisonGroups[c]
    IN  (\E j \in DOMAIN g : g[j].id = a.id) /\ (\E j \in DOMAIN g : g[j].id = b.id)
Measured(it) == it.measureValue # Null /\ it.measureUnit # Null
\* a category text in lower case with spaces for underscores; no text reads 'outros'
Normalized(category) ==
  IF category = Null THEN Outros
  ELSE [k \in DOMAIN Val(category) |->
          IF Val(category)[k] = "_" THEN " "
          ELSE IF Val(category)[k] = "A" THEN "a" ELSE Val(category)[k]]

\* C17 as stated: two entries whose category texts are spelled differently
\* are never in the same comparison group.
C17_ExactCategory ==
  \A j, k \in DOMAIN items :
    SameGroup(items[j], items[k]) => items[j].category = items[k].category

\* C17, amended: two measured entries are in the same comparison group
\* exactly when their category texts are equal after lower-casing and after
\* replacing underscores by spaces, an entry without category counting as
\* 'outros'.
C17_NormalizedCategory ==
  \A j, k \in DOMAIN items :
    Measured(items[j]) /\ Measured(items[k])
      => (SameGroup(items[j], items[k])
            <=> Normalized(items[j].category) = Normalized(items[k].category))

\* 'A' and 'a' share a group, 'a_b' stands in another
C17_Witness ==
  /\ Len(items) = 3
  /\ \E j, k, m \in DOMAIN items :
       /\ items[j].category = Some(Str1("A"))
       /\ items[k].category = Some(Str1("a"))
       /\ items[m].category = Some(Str3("a", "_", "b"))
       /\ SameGroup(items[j], items[k])
       /\ ~SameGroup(items[k], items[m])

\* the position of the entry with this identifier in the cart
PositionOf(id) == CHOOSE k \in DOMAIN items : items[k].id = id
Ascending(g) ==
  \A j, k \in DOMAIN g : j < k => RatioLeq(UnitPrice(g[j]), UnitPrice(g[k]))
Tied(a, b) == RatioEq(UnitPrice(a), UnitPrice(b))

\* C18 as stated: every group is sorted ascending by unit price, entries of
\* equal unit price stand in insertion order, the entry added to the cart
\* first coming first, and so among tied cheapest entries the one inserted
\* first is flagged best value.
C18_TiesOldestFirst ==
  \A c \in DOMAIN view.comparisonGroups :
    LET g == view.comparisonGroups[c]
    IN  /\ Ascending(g)
        /\ \A j, k \in DOMAIN g : j < k /\ Tied(g[j], g[k]) => g[j].id < g[k].id
        /\ \A j \in Flagged(g) : \A k \in DOMAIN g : Tied(g[j], g[k]) => g[j].id <= g[k].id

\* C18, amended: every group is sorted ascending by unit price, entries of
\* equal unit price stand in the order they have in the cart, and in a
\* group of at least two the flagged entry is the first of the group: among
\* tied cheapest entries the one nearest the front of the cart.
C18_TiesCartOrder ==
  \A c \in DOMAIN view.comparisonGroups :
    LET g == view.comparisonGroups[c]
    IN  /\ Ascending(g)
        /\ \A j, k \in DOMAIN g :
             j < k /\ Tied(g[j], g[k]) => PositionOf(g[j].id) < PositionOf(g[k].id)
        /\ Len(g) >= 2 => Flagged(g) = {1}
        /\ \A j \in Flagged(g) : \A k \in DOMAIN g :
             Tied(g[j], g[k]) => PositionOf(g[j].id) <= PositionOf(g[k].id)

\* 10.00 for 500 g, then 20.00 for 1 kg: the same price per gram, and the entry
\* added last, at the front of the cart, is the one flagged
C18_Witness ==
  /\ Len(items) = 2
  /\ items[1].id > items[2].id
  /\ items[1].price = 20000 /\ items[2].price = 10000
  /\ Measured(items[1]) /\ Measured(items[2])
  /\ Tied(items[1], items[2])
  /\ view.bestValueIds = {items[1].id}

(***************************************************************************)
(* Properties of the batch's calls                                         *)
(***************************************************************************)
\* C19: at most one analysis call is in flight; within a batch the call for
\* the next file starts only when the call before it has returned or
\* thrown; no batch starts while one is running; and when a batch ends every
\* one of its files was handed to the analysis exactly once, in order,
\* failed files included.
C19_OneCallAtATime ==
  [][/\ inFlight' <= 1
     /\ Len(started') = Len(results') + inFlight'
     /\ started' = [k \in 1..Len(started') |-> k]
     /\ status.isAnalyzing /\ status'.isAnalyzing
          => Val(analyzingProgress').total = Val(analyzingProgress).total
     /\ BatchCompletes
          => /\ Len(started') = Val(analyzingProgress).total
             /\ Len(results') = Val(analyzingProgress).total]_vars

\* a batch of two files has ended whose first file failed: two calls, two outcomes
C19_Witness ==
  /\ ~status.isAnalyzing
  /\ inFlight = 0
  /\ started = <<1, 2>>
  /\ results = <<"fail", "ok">>

(***************************************************************************)
(* Properties of the list reconciliation                                   *)
(***************************************************************************)
\* t occurs in s: s is some text, then t, then some text
Occurs(t, s) ==
  \E i \in 0..Len(s) : \E j \in i..Len(s) :
    s = SubSeq(s, 1, i) \o t \o SubSeq(s, j + 1, Len(s))
LowerName(s) == Trim(ToLowerCase(s))

\* C20 as stated: a list entry and a cart entry match when, ignoring case,
\* either name contains the other; a list entry whose name contains the cart
\* entry's name is reported fulfilled and the cart entry as on the list.
C20_MatchEitherWay ==
  \A l \in DOMAIN shoppingList : \A c \in DOMAIN items :
    (\/ Occurs(LowerName(shoppingList[l].name), LowerName(items[c].productName))
     \/ Occurs(LowerName(items[c].productName), LowerName(shoppingList[l].name)))
      => /\ IsItemInCart(items, shoppingList[l].name)
         /\ IsItemInWishlist(shoppingList, items[c].productName)

\* C20, amended: a list entry is reported fulfilled exactly when, ignoring
\* case, the name of some cart entry contains the list entry's name, and a
\* cart entry is reported on the list exactly when its name contains the
\* name of some list entry; a list name that merely contains the cart
\* entry's name does not match.
C20_CartNameContainsListName ==
  /\ \A l \in DOMAIN shoppingList :
       IsItemInCart(items, shoppingList[l].name)
         <=> \E c \in DOMAIN items :
               Occurs(LowerName(shoppingList[l].name), ToLowerCase(items[c].productName))
  /\ \A c \in DOMAIN items :
       IsItemInWishlist(shoppingList, items[c].productName)
         <=> \E l \in DOMAIN shoppingList :
               Occurs(LowerName(shoppingList[l].name), ToLowerCase(items[c].productName))

\* the list asks for 'A b' and the cart holds 'a': the list name contains the
\* cart name, and neither is reported as matching
C20_Witness ==
  /\ Names(shoppingList) = <<Str3("A", " ", "b")>>
  /\ Len(items) = 1
  /\ items[1].productName = Str1("a")
  /\ ~IsItemInCart(items, shoppingList[1].name)
  /\ ~IsItemInWishlist(shoppingList, items[1].productName)

(***************************************************************************)
(* Properties of the cart while a batch runs                               *)
(***************************************************************************)
\* a step in which an analysis call of the batch returns or throws
FileReturns == Len(results') = Len(results) + 1

\* C22: what the user changes in the cart while a batch is analysed is not
\* lost when the batch ends: the cart after the last file is the batch's
\* successful entries in front of the cart as it stood at that moment, and
\* no earlier step of the batch changes the cart.
C22_BatchKeepsCart ==
  [][FileReturns
       => IF BatchCompletes
            THEN LET n == Successes(results')
                 IN  /\ Len(items') = n + Len(items)
                     /\ SubSeq(items', n + 1, Len(items')) = items
                     /\ \A j \in 1..n : items'[j].id \notin Ids(items) \cup removed
            ELSE items' = items]_vars

\* a batch of two files succeeded; the entry the user added between its two
\* answers was removed again, and the batch did not bring it back
C22_Witness ==
  /\ ~status.isAnalyzing
  /\ results = <<"ok", "ok">>
  /\ IdsOf(items) = <<1, 3>>
  /\ removed = {2}

\* C23: the fulfilled check and the wish-list check agree on every pair: a
\* cart entry and a list entry pass the test of isItemInCart exactly when
\* they pass the test of isItemInWishlist; so some list entry is reported
\* fulfilled if and only if some cart entry is reported on the wish list.
C23_ChecksAgree ==
  /\ \A l \in DOMAIN shoppingList : \A c \in DOMAIN items :
       IsItemInCart(<<items[c]>>, shoppingList[l].name)
         <=> IsItemInWishlist(<<shoppingList[l]>>, items[c].productName)
  /\ (\E l \in DOMAIN shoppingList : IsItemInCart(items, shoppingList[l].name))
       <=> (\E c \in DOMAIN items : IsItemInWishlist(shoppingList, items[c].productName))

\* the list asks for 'B' and for 'a' and the cart holds 'A b': both list entries
\* are reported fulfilled and the cart entry is reported on the list
C23_Witness ==
  /\ Names(shoppingList) = <<Str1("B"), Str1("a")>>
  /\ Len(items) = 1
  /\ items[1].productName = Str3("A", " ", "b")
  /\ \A l \in DOMAIN shoppingList : IsItemInCart(items, shoppingList[l].name)
  /\ IsItemInWishlist(shoppingList, items[1].productName)

(***************************************************************************)
(* Properties of the names of manual entries                               *)
(***************************************************************************)
\* C25: every cart entry made by manual entry has a name that is not empty
\* and has no white space at its start or end, whatever adds and in-place
\* name edits came before.
C25_ManualNamesTrimmed ==
  \A k \in DOMAIN items :
    /\ items[k].productName # <<>>
    /\ ~IsSpace(items[k].productName[1])
    /\ ~IsSpace(items[k].productName[Len(items[k].productName)])

(***************************************************************************)
(* Properties of the list-analyzing indicator                              *)
(***************************************************************************)
\* C26: the list-analyzing indicator is true whenever a list import call is
\* in flight, also when a second import was started before the first one
\* returned; it is false only when no import is in flight.
C26_IndicatorWhileImporting == isListAnalyzing <=> listCalls > 0

(***************************************************************************)
(* Properties of the batch's progress                                      *)
(***************************************************************************)
Running == status.isAnalyzing
Current == Val(analyzingProgress).current
Total == Val(analyzingProgress).total

\* the counter starts at 1, moves by one at a time and ends at the total
CountsUp ==
  /\ (~Running /\ Running') => Val(analyzingProgress').current = 1
  /\ (Running /\ Running')
       => /\ Val(analyzingProgress').total = Total
          /\ Val(analyzingProgress').current \in {Current, Current + 1}
  /\ (Running /\ ~Running') => Current = Total

\* C27: when every analysis call returns or throws, every started batch
\* ends: the analyzing flag is false again and the progress indicator is
\* cleared, whatever the outcomes were. While the batch runs the flag is
\* true and the progress counter is 1, 2, ..., n in turn, never above the
\* number n of files.
C27_BatchEnds ==
  /\ [](pc = "await" => Running)
  /\ [](Running => /\ IsSome(analyzingProgress)
                   /\ Current = Len(results) + 1
                   /\ Current \in 1..Total)
  /\ [][CountsUp]_vars
  /\ Running ~> (~Running /\ analyzingProgress = Null)

\* a batch of two files has ended after a success and a failure
C27_Witness ==
  /\ ~Running
  /\ analyzingProgress = Null
  /\ results = <<"ok", "fail">>

(***************************************************************************)
(* Properties of the displayed per-unit prices                             *)
(***************************************************************************)
\* the cents read back from an amount text: its digits, and its sign
CentsOfText(t) ==
  LET ds == SelectSeq(t, LAMBDA ch : ch \in Digits)
  IN  IF t # <<>> /\ t[1] = "-" THEN 0 - DigitsValue(ds) ELSE DigitsValue(ds)

Shows(it) == IsSome(ModalUnitLabel(it))
Shown(it) == CentsOfText(Val(ModalUnitLabel(it)).amount)
Scaled(it) == Val(it.measureUnit) \in {Kilo, Litre}

\* C24 as stated: the per-unit price shown for an entry of the comparison
\* view is the normalized unit price that ranks the entries, and in a group
\* of at least 2 entries the price shown for the entry marked best is less
\* than or equal to the price shown for every other entry, whatever their
\* units.
C24_BestShownCheapest ==
  \A c \in GroupsOfTwo :
    LET g == view.comparisonGroups[c]
    IN  /\ \A k \in DOMAIN g : Shows(g[k]) => Shown(g[k]) = Cents(UnitPrice(g[k]))
        /\ \A j \in Flagged(g) : \A k \in DOMAIN g :
             (Shows(g[j]) /\ Shows(g[k])) => Shown(g[j]) <= Shown(g[k])

\* C24 amended: the per-unit price shown is the price divided by the entry's
\* own measure value, per kg or l for an entry in kg or l (1000 times the
\* normalized unit price) and the normalized unit price otherwise, rounded
\* to cents; the price shown for the entry marked best is less than or equal
\* to the price shown for every other entry of its group whose unit is
\* normalized the same way.
C24_ShownPerOwnUnit ==
  \A c \in GroupsOfTwo :
    LET g == view.comparisonGroups[c]
    IN  /\ \A k \in DOMAIN g :
             Shows(g[k]) =>
               Shown(g[k]) = Cents(Ratio(UnitPrice(g[k]).num * (IF Scaled(g[k]) THEN 1000 ELSE 1),
                                         UnitPrice(g[k]).den))
        /\ \A j \in Flagged(g) : \A k \in DOMAIN g :
             (Shows(g[j]) /\ Shows(g[k]) /\ Scaled(g[j]) = Scaled(g[k]))
               => Shown(g[j]) <= Shown(g[k])

\* the entry marked best is sold by the kilo and shows a higher price than
\* an entry of its group sold by the gram
C24_Witness ==
  \E c \in GroupsOfTwo :
    LET g == view.comparisonGroups[c]
    IN  \E j \in Flagged(g) : \E k \in DOMAIN g :
          /\ Scaled(g[j]) /\ ~Scaled(g[k])
          /\ Shows(g[j]) /\ Shows(g[k])
          /\ Shown(g[j]) > Shown(g[k])

(***************************************************************************)
(* Properties of the share text                                            *)
(***************************************************************************)
\* the lines of a text
RECURSIVE SplitLines(_)
SplitLines(s) ==
  LET n == Run(s, {ch \in {s[k] : k \in DOMAIN s} : ch # NewLine})
  IN  IF n = Len(s) THEN <<s>> ELSE <<SubSeq(s, 1, n)>> \o SplitLines(Drop(s, n + 1))

\* the lines between the header and the total, each a cart entry
EntryLines(text) ==
  LET ls == SplitLines(text) IN SubSeq(ls, 3, Len(ls) - 2)
\* where the last " - " of a line starts
LastDash(line) ==
  LET ks == {k \in 1..(Len(line) - 2) : SubSeq(line, k, k + 2) = <<" ", "-", " ">>}
  IN  CHOOSE k \in ks : \A j \in ks : j <= k
QuantityOf(line) == DigitsValue(SubSeq(line, 1, Run(line, Digits)))
NameOf(line) == SubSeq(line, Run(line, Digits) + 3, LastDash(line) - 1)
AmountOf(line) == CentsOfText(Drop(line, LastDash(line) + 2))
\* the total printed on the last line
TotalOf(text) ==
  LET ls == SplitLines(text) IN CentsOfText(Drop(ls[Len(ls)], Len(TotalLabel)))

RECURSIVE SumOf(_)
SumOf(ns) == IF ns = <<>> THEN 0 ELSE ns[1] + SumOf(Tail(ns))

\* C21: the share text of a non-empty cart, read back, has one line per cart
\* entry with the entry's quantity and name; its quantities add up to the
\* item count shown, and its line amounts add up to the total cost shown
\* and printed on the last line of the text.
C21_ShareRoundTrip ==
  items # <<>> =>
    LET text == Val(ShareText(items, view.totalCost))
        ls == EntryLines(text)
    IN  /\ Len(ls) = Len(items)
        /\ \A k \in DOMAIN ls :
             /\ QuantityOf(ls[k]) = items[k].quantity
             /\ NameOf(ls[k]) = items[k].productName
        /\ SumOf([k \in DOMAIN ls |-> QuantityOf(ls[k])]) = view.itemCount
        /\ TotalOf(text) = CentsOfText(FormatCurrency(Reais(view.totalCost)))
        /\ SumOf([k \in DOMAIN ls |-> AmountOf(ls[k])]) = TotalOf(text)

====
